---- MODULE Spec2Model ----
(***************************************************************************)
(* Model of binmerge-rs (src/main.rs): the timestamp converter             *)
(* cuestamp_to_sectors, the CUE scanner get_bin_from_cue and the           *)
(* concatenating merge_files.                                              *)
(*                                                                         *)
(* Three specifications share the module:                                  *)
(*   SpecStamp  one call of cuestamp_to_sectors on a drawn string;         *)
(*   SpecParse  one run of get_bin_from_cue over a drawn sheet;            *)
(*   SpecMerge  calls of merge_files against a drawn file system.          *)
(***************************************************************************)
EXTENDS Integers, Sequences, FiniteSets, TLC

VARIABLES
    overflow_checks,  \* build profile: TRUE = u32 overflow panics, FALSE = wraps
    timestamp,        \* SpecStamp: the argument of cuestamp_to_sectors
    stamp_result,     \* SpecStamp: its outcome
    stamp_pc,         \* SpecStamp: "ready" | "done"
    cue,              \* SpecParse: the lines reader.lines() has yielded so far
    bin_files,        \* SpecParse: Vec<BinFile> under construction
    parse_pc,         \* SpecParse: "scanning" | "returned" | "panicked"
    fs,               \* SpecMerge: path -> contents, or NoFile
    files,            \* SpecMerge: the source list of the current call
    file_idx,         \* SpecMerge: sources fully processed in the for loop
    offset,           \* SpecMerge: read position in the open source
    merge_pc,         \* SpecMerge: position inside merge_files
    merge_result,     \* SpecMerge: value returned by the current/last call
    target_before,    \* SpecMerge: contents at the target path when the call began
    opened,           \* SpecMerge: positions in files File::open was called on in this call
    read_failed,      \* SpecMerge: a read() of this call returned Err
    write_failed,     \* SpecMerge: a write_all() of this call returned Err
    runs              \* SpecMerge: number of calls started

stampVars == <<timestamp, stamp_result, stamp_pc>>
parseVars == <<cue, bin_files, parse_pc>>
mergeVars == <<fs, files, file_idx, offset, merge_pc,
               merge_result, target_before, opened, read_failed, write_failed, runs>>
vars == <<overflow_checks, stampVars, parseVars, mergeVars>>

----------------------------------------------------------------------------
(* u32 arithmetic.  A natural number is kept as two limbs, value =         *)
(* hi * 2^16 + lo with 0 <= lo < 2^16, so that values beyond 2^32 can be   *)
(* told from their wrapped images.  A value fits u32 iff hi < 2^16.        *)

Limb == 2^16

Nat2(h, l) == [hi |-> h + (l \div Limb), lo |-> l % Limb]

Zero2 == Nat2(0, 0)

Small(n) == Nat2(0, n)

Add2(x, y) == Nat2(x.hi + y.hi, x.lo + y.lo)

MulSmall(x, k) == Nat2(x.hi * k, x.lo * k)

FitsU32(x) == x.hi < Limb

WrapU32(x) == [hi |-> x.hi % Limb, lo |-> x.lo]

Panic == [kind |-> "Panic"]

\* One u32 operation whose mathematical result is x: an overflow panics when
\* the build checks overflow and wraps modulo 2^32 when it does not.
U32Op(x, checks) ==
    IF FitsU32(x) THEN [kind |-> "Val", val |-> x]
    ELSE IF checks THEN Panic
    ELSE [kind |-> "Val", val |-> WrapU32(x)]

----------------------------------------------------------------------------
(* Characters and str::parse::<u32>.                                       *)

AsciiDigits == <<"0", "1", "2", "3", "4", "5", "6", "7", "8", "9">>

\* A decimal digit outside ASCII (U+0663): \d matches it, parse::<u32> does not.
ArabicThree == "u0663"

IsAsciiDigit(c) == \E i \in 1..10 : AsciiDigits[i] = c

IsDigit(c) == IsAsciiDigit(c) \/ c = ArabicThree

DigitVal(c) == (CHOOSE i \in 1..10 : AsciiDigits[i] = c) - 1

NoneVal == [kind |-> "None"]

RECURSIVE ParseAcc(_, _, _)
ParseAcc(s, i, acc) ==
    IF i > Len(s) THEN [kind |-> "Val", val |-> acc]
    ELSE IF ~IsAsciiDigit(s[i]) THEN NoneVal
    ELSE LET next == Add2(MulSmall(acc, 10), Small(DigitVal(s[i])))
         IN  IF FitsU32(next) THEN ParseAcc(s, i + 1, next) ELSE NoneVal

\* s.parse::<u32>(): Val for a non-empty run of ASCII digits whose value is
\* below 2^32, None (the Err of parse) otherwise.
ParseU32(s) == IF Len(s) = 0 THEN NoneVal ELSE ParseAcc(s, 1, Zero2)

----------------------------------------------------------------------------
(* Regex search.  The patterns are unanchored: captures() returns the      *)
(* leftmost match anywhere in the haystack, \d+ taking the longest run.    *)

RECURSIVE DigitRunEnd(_, _)
\* Index of the last character of the run of \d characters starting at i
\* (i - 1 when s[i] is no digit or i is past the end).
DigitRunEnd(s, i) ==
    IF i <= Len(s) /\ IsDigit(s[i]) THEN DigitRunEnd(s, i + 1) ELSE i - 1

IsColonAt(s, i) == i <= Len(s) /\ s[i] = ":"

\* The groups of (\d+):(\d+):(\d+) matched with the match starting at i.
StampMatchAt(s, i) ==
    LET e1 == DigitRunEnd(s, i)
        e2 == DigitRunEnd(s, e1 + 2)
        e3 == DigitRunEnd(s, e2 + 2)
    IN  IF e1 >= i /\ IsColonAt(s, e1 + 1) /\ e2 >= e1 + 2
           /\ IsColonAt(s, e2 + 1) /\ e3 >= e2 + 2
        THEN [kind |-> "Caps",
              g1 |-> SubSeq(s, i, e1),
              g2 |-> SubSeq(s, e1 + 2, e2),
              g3 |-> SubSeq(s, e2 + 2, e3)]
        ELSE NoneVal

\* re.captures(timestamp) for r"(\d+):(\d+):(\d+)".
StampCaptures(s) ==
    LET starts == {i \in 1..Len(s) : StampMatchAt(s, i).kind = "Caps"}
    IN  IF starts = {} THEN NoneVal
        ELSE StampMatchAt(s, CHOOSE i \in starts : \A j \in starts : i <= j)

----------------------------------------------------------------------------
(* cuestamp_to_sectors                                                     *)

SectorsPerSecond == 75

SecondsPerMinute == 60

Ok(v) == [kind |-> "Ok", val |-> v]

Err(m) == [kind |-> "Err", msg |-> m]

\* frames + (seconds * 75) + (minutes * 60 * 75) in u32, operand by operand.
SectorSum(minutes, seconds, frames, checks) ==
    LET s75 == U32Op(MulSmall(seconds, SectorsPerSecond), checks)
    IN  IF s75.kind = "Panic" THEN Panic ELSE
    LET fs75 == U32Op(Add2(frames, s75.val), checks)
    IN  IF fs75.kind = "Panic" THEN Panic ELSE
    LET m60 == U32Op(MulSmall(minutes, SecondsPerMinute), checks)
    IN  IF m60.kind = "Panic" THEN Panic ELSE
    LET m4500 == U32Op(MulSmall(m60.val, SectorsPerSecond), checks)
    IN  IF m4500.kind = "Panic" THEN Panic ELSE
    LET total == U32Op(Add2(fs75.val, m4500.val), checks)
    IN  IF total.kind = "Panic" THEN Panic ELSE Ok(total.val)

cuestamp_to_sectors(ts, checks) ==
    LET caps == StampCaptures(ts)
    IN  IF caps.kind = "None" THEN Err("Timestamp does not match pattern") ELSE
    LET minutes == ParseU32(caps.g1)
    IN  IF minutes.kind = "None" THEN Err("Invalid minutes") ELSE
    LET seconds == ParseU32(caps.g2)
    IN  IF seconds.kind = "None" THEN Err("Invalid seconds") ELSE
    LET frames == ParseU32(caps.g3)
    IN  IF frames.kind = "None" THEN Err("Invalid frames") ELSE
        SectorSum(minutes.val, seconds.val, frames.val, checks)

----------------------------------------------------------------------------
(* SpecStamp: one call of cuestamp_to_sectors.                             *)

MaxNines == 6

RECURSIVE Nines(_)
Nines(k) == IF k = 0 THEN <<>> ELSE <<"9">> \o Nines(k - 1)

StampFields ==
    { <<>>, <<"0">>, <<"0", "2">>, <<"1", "5">>, <<"3", "7">>, <<"7", "5">>,
      <<"9", "5", "4", "4", "3", "7">>, <<"9", "5", "4", "4", "3", "8">>,
      <<"4", "2", "9", "4", "9", "6", "7", "2", "9", "5">>,
      <<"4", "2", "9", "4", "9", "6", "7", "2", "9", "6">>,
      <<ArabicThree>> }
    \cup { Nines(k) : k \in 1..MaxNines }

StampPrefixes == { <<>>, <<"a">>, <<"1", ":">> }

StampSuffixes == { <<>>, <<"b">>, <<":", "4">> }

StampInputs ==
    { pre \o m \o <<":">> \o s \o <<":">> \o f \o post :
        pre \in StampPrefixes, m \in StampFields, s \in StampFields,
        f \in StampFields, post \in StampSuffixes }
    \cup { <<>>, <<"a", "b", "c">>, <<"1", ":", "2">> }

ParseIdle ==
    /\ cue = <<>>
    /\ bin_files = <<>>
    /\ parse_pc = "idle"

MergeIdle ==
    /\ fs = <<>>
    /\ files = <<>>
    /\ file_idx = 0
    /\ offset = 0
    /\ merge_pc = "idle"
    /\ merge_result = NoneVal
    /\ target_before = NoneVal
    /\ opened = {}
    /\ read_failed = FALSE
    /\ write_failed = FALSE
    /\ runs = 0

StampIdle ==
    /\ timestamp = <<>>
    /\ stamp_result = NoneVal
    /\ stamp_pc = "idle"

InitStamp ==
    /\ overflow_checks \in BOOLEAN
    /\ timestamp \in StampInputs
    /\ stamp_result = NoneVal
    /\ stamp_pc = "ready"
    /\ ParseIdle
    /\ MergeIdle

CallCuestamp ==
    /\ stamp_pc = "ready"
    /\ stamp_result' = cuestamp_to_sectors(timestamp, overflow_checks)
    /\ stamp_pc' = "done"
    /\ UNCHANGED <<overflow_checks, timestamp, parseVars, mergeVars>>

NextStamp == CallCuestamp

SpecStamp == InitStamp /\ [][NextStamp]_vars

(* The lexical form minutes:seconds:frames as the whole string: exactly    *)
(* two colons, every other character an ASCII decimal digit, no field      *)
(* empty.                                                                  *)

ColonPositions(s) == {i \in 1..Len(s) : s[i] = ":"}

FirstColon(s) == CHOOSE i \in ColonPositions(s) : \A j \in ColonPositions(s) : i <= j

LastColon(s) == CHOOSE i \in ColonPositions(s) : \A j \in ColonPositions(s) : j <= i

IsStampForm(s) ==
    /\ Cardinality(ColonPositions(s)) = 2
    /\ \A i \in (1..Len(s)) \ ColonPositions(s) : IsAsciiDigit(s[i])
    /\ FirstColon(s) > 1
    /\ LastColon(s) > FirstColon(s) + 1
    /\ LastColon(s) < Len(s)

RECURSIVE DecValue(_, _)
\* The natural number a run of ASCII digits denotes (no width).
DecValue(s, n) ==
    IF n = 0 THEN Zero2
    ELSE Add2(MulSmall(DecValue(s, n - 1), 10), Small(DigitVal(s[n])))

FieldValue(s, from, to) == DecValue(SubSeq(s, from, to), to - from + 1)

MinutesOf(s) == FieldValue(s, 1, FirstColon(s) - 1)

SecondsOf(s) == FieldValue(s, FirstColon(s) + 1, LastColon(s) - 1)

FramesOf(s) == FieldValue(s, LastColon(s) + 1, Len(s))

FieldsFitU32(s) == FitsU32(MinutesOf(s)) /\ FitsU32(SecondsOf(s)) /\ FitsU32(FramesOf(s))

\* frames + seconds*75 + minutes*60*75 over the naturals.
ExactSectors(s) ==
    Add2(Add2(FramesOf(s), MulSmall(SecondsOf(s), 75)),
         MulSmall(MulSmall(MinutesOf(s), 60), 75))

\* C2: for every string of the form mm:ss:ff whose fields are non-negative
\* integers (each within the u32 field width), cuestamp_to_sectors returns
\* frames + seconds*75 + minutes*60*75 exactly, never a value wrapped
\* modulo 2^32.
C2_ExactSectors ==
    (stamp_pc = "done" /\ IsStampForm(timestamp) /\ FieldsFitU32(timestamp))
        => stamp_result = Ok(ExactSectors(timestamp))

\* C7: every string that is not, as a whole, three colon-separated groups of
\* decimal digits makes cuestamp_to_sectors fail (an Err, no offset).
C7_NonMatchingFails ==
    (stamp_pc = "done" /\ ~IsStampForm(timestamp)) => stamp_result.kind = "Err"

----------------------------------------------------------------------------
(* get_bin_from_cue.  A line of the sheet is kept as what the three        *)
(* patterns capture in it: file is group 1 of file_pattern, track groups   *)
(* 1 and 2 of track_pattern, index groups 1 and 2 of index_pattern, each   *)
(* NoneVal when the pattern finds no match in the line.                    *)

NoFile == [kind |-> "NoFile"]

\* Contents of the file at path p, NoFile when nothing is there.
FileAt(disk, p) == IF p \in DOMAIN disk THEN disk[p] ELSE NoFile

Exists(disk, p) == FileAt(disk, p).kind = "File"

FileOf(bytes) == [kind |-> "File", data |-> bytes]

CueDir == "cd"

\* Path::new(cue_path).parent().unwrap().join(bin) for a relative bin name.
JoinPath(dir, name) == dir \o "/" \o name

\* The directory of the sheet: a.bin and b.bin are there, gone.bin is not.
SheetDisk ==
    (JoinPath(CueDir, "a.bin") :> FileOf(<<1, 2, 3>>))
        @@ (JoinPath(CueDir, "b.bin") :> FileOf(<<4, 5>>))

Track_new(num, track_type) ==
    [num |-> num, indexes |-> <<>>, track_type |-> track_type,
     sectors |-> NoneVal, file_offset |-> NoneVal]

Index_new(id, stamp, file_offset) ==
    [id |-> id, stamp |-> stamp, file_offset |-> file_offset]

\* BinFile::new: Err when fs::metadata fails (nothing at the path).
BinFile_new(disk, filepath) ==
    IF ~Exists(disk, filepath) THEN Err("NotFound")
    ELSE Ok([filename |-> filepath, tracks |-> <<>>,
             size |-> Len(FileAt(disk, filepath).data)])

\* bin_files.push(current_bin_file)
PushFile(bf, entry) == Append(bf, entry)

\* Mutant of PushTrack: the track goes to the first File Entry, not the last.
PushTrack_First(bf, track) ==
    IF bf = <<>> THEN bf
    ELSE [bf EXCEPT ![1].tracks = Append(@, track)]

\* if let Some(last_file) = bin_files.last_mut() { last_file.tracks.push(..) }
PushTrack(bf, track) ==
    IF bf = <<>> THEN bf
    ELSE [bf EXCEPT ![Len(bf)].tracks = Append(@, track)]

\* the nested if let on bin_files.last_mut() and last_file.tracks.last_mut()
PushIndex(bf, index) ==
    IF bf = <<>> THEN bf
    ELSE IF bf[Len(bf)].tracks = <<>> THEN bf
    ELSE [bf EXCEPT ![Len(bf)].tracks[Len(bf[Len(bf)].tracks)].indexes = Append(@, index)]

ProcessFileLine(bf, disk, name) ==
    LET made == BinFile_new(disk, JoinPath(CueDir, name))
    IN  IF made.kind = "Err" THEN Panic        \* .unwrap() on Err
        ELSE Ok(PushFile(bf, made.val))

ProcessTrackLine(bf, cap) ==
    LET track_number == ParseU32(cap.num)
    IN  IF track_number.kind = "None" THEN Panic   \* .unwrap() on Err
        ELSE Ok(PushTrack(bf, Track_new(track_number.val, cap.type)))

ProcessIndexLine(bf, cap, checks) ==
    LET index_number == ParseU32(cap.num)
    IN  IF index_number.kind = "None" THEN Panic   \* .unwrap() on Err
        ELSE
    LET file_offset == cuestamp_to_sectors(cap.stamp, checks)
    IN  IF file_offset.kind # "Ok" THEN Panic      \* overflow panic, or .unwrap() on Err
        ELSE Ok(PushIndex(bf, Index_new(index_number.val, cap.stamp, file_offset.val)))

\* One iteration of the for loop over reader.lines(): the patterns are tried
\* in the order FILE, TRACK, INDEX and the first that matches is processed.
ProcessLine(bf, disk, line, checks) ==
    IF line.file.kind = "Cap" THEN ProcessFileLine(bf, disk, line.file.name)
    ELSE IF line.track.kind = "Cap" THEN ProcessTrackLine(bf, line.track)
    ELSE IF line.index.kind = "Cap" THEN ProcessIndexLine(bf, line.index, checks)
    ELSE Ok(bf)

\* What get_bin_from_cue hands back beside the Vec<BinFile>: its return type
\* is io::Result<Vec<BinFile>>, so no diagnostic is ever returned.
diagnostics == {}

----------------------------------------------------------------------------
(* SpecParse: one run of get_bin_from_cue, from the first iteration of the *)
(* loop over reader.lines(); the reader yields the sheet line by line.     *)

MaxLines == 4

FileLine(name) ==
    [file |-> [kind |-> "Cap", name |-> name], track |-> NoneVal, index |-> NoneVal]

TrackLine(num, type) ==
    [file |-> NoneVal, track |-> [kind |-> "Cap", num |-> num, type |-> type],
     index |-> NoneVal]

IndexLine(num, stamp) ==
    [file |-> NoneVal, track |-> NoneVal,
     index |-> [kind |-> "Cap", num |-> num, stamp |-> stamp]]

OtherLine == [file |-> NoneVal, track |-> NoneVal, index |-> NoneVal]

Stamp000000 == <<"0", "0", ":", "0", "0", ":", "0", "0">>

Stamp000200 == <<"0", "0", ":", "0", "2", ":", "0", "0">>

\* minutes * 60 * 75 exceeds u32
StampOverflow == <<"9", "5", "4", "4", "3", "8", ":", "0", "0", ":", "0", "0">>

\* the minutes field itself exceeds u32
StampFieldTooBig ==
    <<"4", "2", "9", "4", "9", "6", "7", "2", "9", "6", ":", "0", "0", ":", "0", "0">>

LinePool ==
    { FileLine("a.bin"), FileLine("b.bin"), FileLine("gone.bin"),
      TrackLine(<<"0", "1">>, "AUDIO"), TrackLine(<<"0", "2">>, "MODE2/2352"),
      IndexLine(<<"0", "0">>, Stamp000000), IndexLine(<<"0", "1">>, Stamp000200),
      IndexLine(<<"0", "1">>, StampOverflow), IndexLine(<<"0", "1">>, StampFieldTooBig),
      OtherLine }

InitParse ==
    /\ overflow_checks \in BOOLEAN
    /\ cue = <<>>
    /\ bin_files = <<>>
    /\ parse_pc = "scanning"
    /\ StampIdle
    /\ MergeIdle

\* The reader yields one more line and the loop body runs on it.  A panic
\* unwinds out of get_bin_from_cue: nothing is returned.
ScanLine ==
    /\ parse_pc = "scanning"
    /\ Len(cue) < MaxLines
    /\ \E line \in LinePool :
         LET r == ProcessLine(bin_files, SheetDisk, line, overflow_checks)
         IN  /\ cue' = Append(cue, line)
             /\ IF r.kind = "Panic"
                THEN parse_pc' = "panicked" /\ bin_files' = bin_files
                ELSE parse_pc' = "scanning" /\ bin_files' = r.val
    /\ UNCHANGED <<overflow_checks, stampVars, mergeVars>>

\* reader.lines() is exhausted: Ok(bin_files) is returned.
EndOfSheet ==
    /\ parse_pc = "scanning"
    /\ parse_pc' = "returned"
    /\ UNCHANGED <<overflow_checks, cue, bin_files, stampVars, mergeVars>>

NextParse == ScanLine \/ EndOfSheet

SpecParse == InitParse /\ [][NextParse]_vars

(* Directives of the sheet, as the specification classifies a line: FILE   *)
(* before TRACK before INDEX.                                              *)

IsFileDirective(line) == line.file.kind = "Cap"

IsTrackDirective(line) == ~IsFileDirective(line) /\ line.track.kind = "Cap"

IsIndexDirective(line) ==
    ~IsFileDirective(line) /\ line.track.kind # "Cap" /\ line.index.kind = "Cap"

LastOf(seq) == seq[Len(seq)]

\* seq grew by exactly one element at its end, the old elements untouched
GrewByOne(old, new) == Len(new) = Len(old) + 1 /\ SubSeq(new, 1, Len(old)) = old

\* new differs from old in its last element at most
SameButLast(old, new) ==
    Len(new) = Len(old) /\ \A i \in 1..(Len(old) - 1) : new[i] = old[i]

TrackAppended(oldFile, newFile, line) ==
    /\ newFile.filename = oldFile.filename
    /\ newFile.size = oldFile.size
    /\ GrewByOne(oldFile.tracks, newFile.tracks)
    /\ LastOf(newFile.tracks).indexes = <<>>
    /\ LastOf(newFile.tracks).track_type = line.track.type
    /\ LastOf(newFile.tracks).num = DecValue(line.track.num, Len(line.track.num))

IndexAppended(oldFile, newFile, line) ==
    /\ newFile.filename = oldFile.filename
    /\ newFile.size = oldFile.size
    /\ SameButLast(oldFile.tracks, newFile.tracks)
    /\ LastOf(newFile.tracks).num = LastOf(oldFile.tracks).num
    /\ LastOf(newFile.tracks).track_type = LastOf(oldFile.tracks).track_type
    /\ GrewByOne(LastOf(oldFile.tracks).indexes, LastOf(newFile.tracks).indexes)
    /\ LastOf(LastOf(newFile.tracks).indexes).stamp = line.index.stamp
    /\ LastOf(LastOf(newFile.tracks).indexes).id
           = DecValue(line.index.num, Len(line.index.num))

C3_Step ==
    (parse_pc = "scanning" /\ parse_pc' = "scanning" /\ cue' # cue) =>
        LET line == LastOf(cue')
        IN  IF IsFileDirective(line)
            THEN /\ GrewByOne(bin_files, bin_files')
                 /\ LastOf(bin_files').tracks = <<>>
                 /\ LastOf(bin_files').filename = JoinPath(CueDir, line.file.name)
            ELSE IF IsTrackDirective(line) /\ bin_files # <<>>
            THEN /\ SameButLast(bin_files, bin_files')
                 /\ TrackAppended(LastOf(bin_files), LastOf(bin_files'), line)
            ELSE IF IsIndexDirective(line) /\ bin_files # <<>>
                    /\ LastOf(bin_files).tracks # <<>>
            THEN /\ SameButLast(bin_files, bin_files')
                 /\ IndexAppended(LastOf(bin_files), LastOf(bin_files'), line)
            ELSE bin_files' = bin_files

\* C3: during a scan the image only grows at the cursor.  Every FILE line
\* appends one File Entry at the end of the image, every TRACK line appends
\* one Track Entry to the File Entry appended last, every INDEX line appends
\* one Index Entry to the last Track Entry of the last File Entry, and no
\* entry appended earlier is removed, reordered or changed.
C3_AppendOnlyAtCursor == [][C3_Step]_vars

\* C3 witness: one FILE, one TRACK and two INDEX lines were scanned and the
\* image returned holds one File Entry, one Track Entry, two Index Entries.
C3_Witness ==
    /\ parse_pc = "returned"
    /\ cue = << FileLine("a.bin"), TrackLine(<<"0", "1">>, "AUDIO"),
                IndexLine(<<"0", "0">>, Stamp000000),
                IndexLine(<<"0", "1">>, Stamp000200) >>
    /\ Len(bin_files) = 1
    /\ Len(bin_files[1].tracks) = 1
    /\ Len(bin_files[1].tracks[1].indexes) = 2

NamesMissingFile(line) ==
    IsFileDirective(line) /\ ~Exists(SheetDisk, JoinPath(CueDir, line.file.name))

\* C5: a FILE directive naming a non-existent file does not abort the parse;
\* the image holds a File Entry for it, a BinFileNotFound diagnostic is
\* recorded and the scan goes on.
C5_MissingFileRecorded ==
    \A i \in 1..Len(cue) :
        NamesMissingFile(cue[i]) =>
            /\ parse_pc # "panicked"
            /\ "BinFileNotFound" \in diagnostics
            /\ \E k \in 1..Len(bin_files) :
                 bin_files[k].filename = JoinPath(CueDir, cue[i].file.name)

\* Line i is an INDEX directive with no open Track Entry: no FILE directive
\* precedes it, or no TRACK directive lies between the last FILE directive
\* before it and itself.
IsOrphanIndex(sheet, i) ==
    /\ IsIndexDirective(sheet[i])
    /\ \A t \in 1..(i - 1) :
         IsTrackDirective(sheet[t]) =>
             (\/ \E f \in (t + 1)..(i - 1) : IsFileDirective(sheet[f])
              \/ ~\E f \in 1..(t - 1) : IsFileDirective(sheet[f]))

\* Line i is a TRACK directive before any FILE directive.
IsOrphanTrack(sheet, i) ==
    /\ IsTrackDirective(sheet[i])
    /\ ~\E f \in 1..(i - 1) : IsFileDirective(sheet[f])

\* C6: when the line just scanned is an orphan INDEX (an orphan TRACK), the
\* parse has not crashed and an OrphanIndex (OrphanTrack) diagnostic is in
\* the diagnostics returned.
C6_OrphanRecorded ==
    (Len(cue) > 0 /\ parse_pc # "idle") =>
        /\ IsOrphanIndex(cue, Len(cue)) =>
               (parse_pc # "panicked" /\ "OrphanIndex" \in diagnostics)
        /\ IsOrphanTrack(cue, Len(cue)) =>
               (parse_pc # "panicked" /\ "OrphanTrack" \in diagnostics)

Leq2(x, y) == x.hi < y.hi \/ (x.hi = y.hi /\ x.lo <= y.lo)

NonDecreasing(indexes) ==
    \A j \in 1..Len(indexes) : \A k \in j..Len(indexes) :
        Leq2(indexes[j].file_offset, indexes[k].file_offset)

\* C10: in every image returned, the sector offsets of the Index Entries of
\* one Track Entry are non-decreasing in declaration order, unless the
\* violation was flagged by a diagnostic.
C10_OffsetsMonotonic ==
    parse_pc = "returned" =>
        \/ diagnostics # {}
        \/ \A f \in 1..Len(bin_files) : \A t \in 1..Len(bin_files[f].tracks) :
               NonDecreasing(bin_files[f].tracks[t].indexes)

----------------------------------------------------------------------------
(* merge_files.  The file system maps a path to FileOf(bytes); a path      *)
(* outside its domain holds nothing.                                       *)

MaxFileLen == 2

MaxSources == 2

MaxRuns == 2

Target == "merged.bin"

SourceNames == {"a.bin", "b.bin", "gone.bin"}

\* the two source files that exist: a.bin holds 1, 2, ..., b.bin 11, 12, ...
BytesFrom(base, n) == [i \in 1..n |-> base + i]

SourceLists == UNION {[1..n -> SourceNames] : n \in 0..MaxSources}

chunksize == 1024 * 1024

Min(a, b) == IF a <= b THEN a ELSE b

\* Mutant of TargetExists: the existence check is skipped.
TargetExists_Never(disk, path) == FALSE

\* Path::new(merged_filename).exists()
TargetExists(disk, path) == Exists(disk, path)

\* OpenOptions::new().write(true).create_new(true).open(path)
CreateNew(disk, path) ==
    IF Exists(disk, path) THEN Err("AlreadyExists")
    ELSE Ok((path :> FileOf(<<>>)) @@ disk)

\* File::open(file)
File_open(disk, path) == IF Exists(disk, path) THEN Ok(path) ELSE Err("NotFound")

\* Mutant of LeavePartial: the incomplete target is deleted on failure.
LeavePartial_Removed(disk, path) == [p \in (DOMAIN disk) \ {path} |-> disk[p]]

\* An early return through `?` drops the handles and removes nothing: the
\* target stays as written so far.
LeavePartial(disk, path) == disk

\* Mutant of WriteAll: every chunk is written at the start of the target.
WriteAll_Overwrite(disk, path, bytes) ==
    [disk EXCEPT ![path] = FileOf(bytes \o SubSeq(@.data, Len(bytes) + 1, Len(@.data)))]

\* outfile.write_all(&buffer[..bytes_read]) on a handle opened at the end of
\* a file it alone writes: the bytes go after those already there.
WriteAll(disk, path, bytes) ==
    [disk EXCEPT ![path] = FileOf(@.data \o bytes)]

InitMerge ==
    /\ overflow_checks = FALSE
    /\ \E la \in 0..MaxFileLen, lb \in 0..MaxFileLen, old \in BOOLEAN :
         fs = IF old
              THEN ("a.bin" :> FileOf(BytesFrom(0, la))) @@ ("b.bin" :> FileOf(BytesFrom(10, lb)))
                       @@ (Target :> FileOf(<<99>>))
              ELSE ("a.bin" :> FileOf(BytesFrom(0, la))) @@ ("b.bin" :> FileOf(BytesFrom(10, lb)))
    /\ files = <<>>
    /\ file_idx = 0
    /\ offset = 0
    /\ merge_pc = "idle"
    /\ merge_result = NoneVal
    /\ target_before = NoneVal
    /\ opened = {}
    /\ read_failed = FALSE
    /\ write_failed = FALSE
    /\ runs = 0
    /\ StampIdle
    /\ ParseIdle

mergeEnv == <<overflow_checks, stampVars, parseVars>>

\* merge_files(Target, files) is called.
MergeCall ==
    /\ merge_pc \in {"idle", "done"}
    /\ runs < MaxRuns
    /\ \E list \in SourceLists : files' = list
    /\ runs' = runs + 1
    /\ file_idx' = 0
    /\ offset' = 0
    /\ merge_result' = NoneVal
    /\ target_before' = FileAt(fs, Target)
    /\ opened' = {}
    /\ read_failed' = FALSE
    /\ write_failed' = FALSE
    /\ merge_pc' = "entered"
    /\ UNCHANGED <<fs, mergeEnv>>

\* if Path::new(merged_filename).exists() { return Ok(false); }
RefuseExisting ==
    /\ merge_pc = "entered"
    /\ TargetExists(fs, Target)
    /\ merge_result' = Ok(FALSE)
    /\ merge_pc' = "done"
    /\ UNCHANGED <<fs, files, file_idx, offset, target_before, opened,
                   read_failed, write_failed, runs, mergeEnv>>

\* let mut outfile = OpenOptions::new()...create_new(true).open(..)?;
CreateTarget ==
    /\ merge_pc = "entered"
    /\ ~TargetExists(fs, Target)
    /\ LET made == CreateNew(fs, Target)
       IN  IF made.kind = "Err"
           THEN /\ merge_result' = made
                /\ merge_pc' = "done"
                /\ fs' = fs
           ELSE /\ fs' = made.val
                /\ merge_pc' = "next_file"
                /\ merge_result' = merge_result
    /\ UNCHANGED <<files, file_idx, offset, target_before, opened,
                   read_failed, write_failed, runs, mergeEnv>>

\* for file in files { let mut infile = File::open(file)?; ...
OpenSource ==
    /\ merge_pc = "next_file"
    /\ file_idx < Len(files)
    /\ opened' = opened \cup {file_idx + 1}
    /\ LET got == File_open(fs, files[file_idx + 1])
       IN  IF got.kind = "Err"
           THEN /\ merge_result' = got
                /\ merge_pc' = "done"
                /\ fs' = LeavePartial(fs, Target)
           ELSE /\ merge_result' = merge_result
                /\ merge_pc' = "reading"
                /\ fs' = fs
    /\ offset' = 0
    /\ UNCHANGED <<files, file_idx, target_before, read_failed, write_failed,
                   runs, mergeEnv>>

\* infile.read(&mut buffer) returns Ok(n), 1 <= n <= chunksize (a read may be
\* short), and write_all stores the n bytes.
CopyChunk ==
    /\ merge_pc = "reading"
    /\ LET data == FileAt(fs, files[file_idx + 1]).data
       IN  \E n \in 1..Min(chunksize, Len(data) - offset) :
             /\ fs' = WriteAll(fs, Target, SubSeq(data, offset + 1, offset + n))
             /\ offset' = offset + n
    /\ UNCHANGED <<files, file_idx, merge_pc, merge_result, target_before, opened,
                   read_failed, write_failed, runs, mergeEnv>>

\* read returns Ok(n) and write_all(..)? fails after storing k < n bytes.
CopyChunkWriteFails ==
    /\ merge_pc = "reading"
    /\ LET data == FileAt(fs, files[file_idx + 1]).data
       IN  \E n \in 1..Min(chunksize, Len(data) - offset) : \E k \in 0..(n - 1) :
             fs' = LeavePartial(WriteAll(fs, Target, SubSeq(data, offset + 1, offset + k)),
                                Target)
    /\ write_failed' = TRUE
    /\ merge_result' = Err("WriteFailed")
    /\ merge_pc' = "done"
    /\ UNCHANGED <<files, file_idx, offset, target_before, opened, read_failed,
                   runs, mergeEnv>>

\* read returns Ok(0): break, and the for loop goes to the next source.
ReadEof ==
    /\ merge_pc = "reading"
    /\ offset = Len(FileAt(fs, files[file_idx + 1]).data)
    /\ file_idx' = file_idx + 1
    /\ merge_pc' = "next_file"
    /\ UNCHANGED <<fs, files, offset, merge_result, target_before, opened,
                   read_failed, write_failed, runs, mergeEnv>>

\* read returns Err: `while let Ok(..)` stops matching, the loop over this
\* source ends and the for loop goes to the next source.
ReadError ==
    /\ merge_pc = "reading"
    /\ read_failed' = TRUE
    /\ file_idx' = file_idx + 1
    /\ merge_pc' = "next_file"
    /\ UNCHANGED <<fs, files, offset, merge_result, target_before, opened,
                   write_failed, runs, mergeEnv>>

\* the for loop is over: Ok(true)
ReturnTrue ==
    /\ merge_pc = "next_file"
    /\ file_idx = Len(files)
    /\ merge_result' = Ok(TRUE)
    /\ merge_pc' = "done"
    /\ UNCHANGED <<fs, files, file_idx, offset, target_before, opened,
                   read_failed, write_failed, runs, mergeEnv>>

NextMerge ==
    \/ MergeCall
    \/ RefuseExisting
    \/ CreateTarget
    \/ OpenSource
    \/ CopyChunk
    \/ CopyChunkWriteFails
    \/ ReadEof
    \/ ReadError
    \/ ReturnTrue

SpecMerge == InitMerge /\ [][NextMerge]_vars

(* What the sources hold, end to end.                                      *)

RECURSIVE ConcatOf(_, _)
ConcatOf(disk, list) ==
    IF list = <<>> THEN <<>>
    ELSE FileAt(disk, Head(list)).data \o ConcatOf(disk, Tail(list))

AllSourcesExist == \A i \in 1..Len(files) : Exists(fs, files[i])

FreshTarget == target_before.kind = "NoFile"

NoIoFault == ~read_failed /\ ~write_failed

\* C1: a merge of existing, readable sources into a target path that did not
\* exist reports success, and the target then holds exactly the bytes of the
\* sources in the order given: each source intact and contiguous at the
\* offset equal to the total length of the sources before it.
C1_Concatenated ==
    (merge_pc = "done" /\ FreshTarget /\ AllSourcesExist /\ NoIoFault) =>
        /\ merge_result = Ok(TRUE)
        /\ FileAt(fs, Target) = FileOf(ConcatOf(fs, files))

\* C1 witness: two non-empty sources of two bytes each were merged, in the
\* order b.bin, a.bin, into a fresh target.
C1_Witness ==
    /\ merge_pc = "done"
    /\ FreshTarget
    /\ NoIoFault
    /\ files = <<"b.bin", "a.bin">>
    /\ Len(FileAt(fs, "a.bin").data) = 2
    /\ Len(FileAt(fs, "b.bin").data) = 2
    /\ merge_result = Ok(TRUE)
    /\ FileAt(fs, Target).data = <<11, 12, 1, 2>>

\* C4 as claimed: merging into a target that already exists returns the
\* error TargetAlreadyExists (not a plain non-error value), opens no source
\* and leaves the target's contents unchanged.
C4_RefusedWithError ==
    (merge_pc = "done" /\ target_before.kind = "File") =>
        /\ merge_result.kind = "Err"
        /\ opened = {}
        /\ FileAt(fs, Target) = target_before

\* C4 as amended: merging into a target that already exists returns
\* Ok(false), a non-error value that is not the success value, opens no
\* source and leaves the target's contents unchanged; every call after the
\* first against the same target is rejected this way.
C4_RefusedWithFalse ==
    /\ (merge_pc = "done" /\ target_before.kind = "File") =>
           /\ merge_result = Ok(FALSE)
           /\ opened = {}
           /\ FileAt(fs, Target) = target_before
    /\ (merge_pc = "done" /\ runs > 1) =>
           (target_before.kind = "File" /\ merge_result = Ok(FALSE))

\* C4 witness: a second call with a non-empty source list, against the target
\* the first call left behind, has returned.
C4_Witness ==
    /\ merge_pc = "done"
    /\ runs = 2
    /\ files = <<"a.bin">>
    /\ target_before = FileOf(<<11>>)
    /\ FileAt(fs, Target) = FileOf(<<11>>)
    /\ merge_result = Ok(FALSE)

SomeSourceMissing == \E i \in 1..Len(files) : ~Exists(fs, files[i])

FirstMissing ==
    CHOOSE k \in 1..Len(files) :
        ~Exists(fs, files[k]) /\ \A j \in 1..(k - 1) : Exists(fs, files[j])

\* C8: when a listed source does not exist (and no write failed before it
\* was reached) the merge returns the not-found error and stops at that
\* source: no later source is opened, and the target is still there holding
\* what was written from the sources before it, all their bytes when every
\* read succeeded.
C8_SourceNotFound ==
    (merge_pc = "done" /\ FreshTarget /\ SomeSourceMissing /\ ~write_failed) =>
        /\ merge_result = Err("NotFound")
        /\ opened = 1..FirstMissing
        /\ file_idx = FirstMissing - 1
        /\ Exists(fs, Target)
        /\ ~read_failed =>
               FileAt(fs, Target) = FileOf(ConcatOf(fs, SubSeq(files, 1, FirstMissing - 1)))

\* C8 witness: the second of two sources is missing and the two bytes of the
\* first are in the target.
C8_Witness ==
    /\ merge_pc = "done"
    /\ FreshTarget
    /\ files = <<"a.bin", "gone.bin">>
    /\ merge_result = Err("NotFound")
    /\ FileAt(fs, Target) = FileOf(<<1, 2>>)

\* C9: an I/O failure during a merge is surfaced as an error, and success is
\* never reported while the target holds less than the concatenation of all
\* the sources.
C9_FailureSurfaced ==
    merge_pc = "done" =>
        /\ (read_failed \/ write_failed) => merge_result.kind = "Err"
        /\ merge_result = Ok(TRUE) => FileAt(fs, Target) = FileOf(ConcatOf(fs, files))

====
